---------------------------- MODULE Spec2Model ----------------------------
(***************************************************************************)
(* A model of vesta2cell.py: the section decoder (read_vesta and the four  *)
(* vesta_* parsers), the symmetry expansion (apply_symops_pos,             *)
(* apply_symops_vec), the CASTEP formatter and convert.                    *)
(*                                                                         *)
(* Text.  A character is a one-character string, a token is a sequence of  *)
(* characters, an input line (after line.strip()) is the sequence of its   *)
(* whitespace-separated tokens (line.split()), an output line is a         *)
(* sequence of characters, spaces included.                                *)
(*                                                                         *)
(* Numbers.  A float is an integer number of tenths (One is 1.0).  The     *)
(* literals of the inputs below are multiples of 0.5 and the matrices are  *)
(* integer matrices, so every sum and product of the program is exact in   *)
(* binary floating point and str() prints one fractional digit.            *)
(***************************************************************************)
EXTENDS Integers, Sequences, FiniteSets, TLC

VARIABLES
    pc,          \* control position of the running function
    err,         \* the exception that ended the run ("" while none)
    spin,        \* convert's spin argument
    doc,         \* read_vesta: data, the stripped lines of the file
    idx,         \* read_vesta: position of `for line in data` (0-based)
    keyword,     \* read_vesta: keyword (a line, or <<>> for "")
    data_block,  \* read_vesta: data_block
    vesta_objs,  \* read_vesta: vesta_objs (keyword line -> decoded object)
    i,           \* apply_symops_pos / apply_symops_vec: outer loop index
    j,           \* apply_symops_pos / apply_symops_vec: inner loop index
    atoms,       \* apply_symops_pos: atoms
    positions,   \* apply_symops_pos: positions
    atom_pos,    \* vesta_to_castep: atom_pos (None until constructed)
    castep_objs, \* convert: castep_objs (None until vesta_to_castep returns)
    file,        \* the <f_out>.cell file: [opened, content]
    obj,         \* the vesta_* object a parser is filling (None outside one)
    string       \* __repr__: string, the text built so far

vars == <<pc, err, spin, doc, idx, keyword, data_block, vesta_objs,
          i, j, atoms, positions, atom_pos, castep_objs, file, obj, string>>

\* A name that may hold None holds a sequence: None is the empty one, an
\* object x is Some(x), and The(o) is the object that o holds.
None == <<>>

Some(x) == <<x>>

The(o) == o[1]

\* ------------------------------------------------------------ bounds
MaxAtoms == 2
MaxOps == 2
MaxVecs == 2
MaxBuf == 6
MaxLines == 5

\* ------------------------------------------------------------ numbers
\* The literal 1 of `pos[k] > 1`, `1 + pos[k]`, `pos[k] -= 1`, in tenths.
One == 10

Half == One \div 2

\* float * float for an integer-valued left factor (a matrix entry).
Mul(a, b) == (a * b) \div One

Ok(v) == [ok |-> TRUE, val |-> v]

Raise(e) == [ok |-> FALSE, err |-> e]

SeqsUpTo(S, n) == UNION {[1..m -> S] : m \in 0..n}

\* ------------------------------------------------------------ keywords
SYMOP == << <<"S", "Y", "M", "O", "P">> >>

CELLP == << <<"C", "E", "L", "L", "P">> >>

STRUC == << <<"S", "T", "R", "U", "C">> >>

VECTR == << <<"V", "E", "C", "T", "R">> >>

\* ------------------------------------------------------------ symop
\* symop.apply: temp[i] = sum_j matrix[i][j]*vector[j] + self.vector[i]
Apply(op, v) ==
    [r \in 1..3 |->
        Mul(op.matrix[r][1], v[1]) + Mul(op.matrix[r][2], v[2])
        + Mul(op.matrix[r][3], v[3]) + op.vector[r]]

\* symop.apply_mat: the same without self.vector
ApplyMat(op, v) ==
    [r \in 1..3 |->
        Mul(op.matrix[r][1], v[1]) + Mul(op.matrix[r][2], v[2])
        + Mul(op.matrix[r][3], v[3])]

\* apply reads matrix[i][j], vector[j], self.vector[i] for i, j in 0..2
ApplyDefined(op, v) ==
    /\ Len(v) >= 3
    /\ Len(op.vector) >= 3
    /\ \A r \in 1..3 : Len(op.matrix[r]) >= 3

\* apply_mat reads matrix[i][j], vector[j] for i, j in 0..2
ApplyMatDefined(op, v) ==
    /\ Len(v) >= 3
    /\ \A r \in 1..3 : Len(op.matrix[r]) >= 3

\* ------------------------------------------------------------ expansion
\* if pos[k] < 0: pos[k] = 1 + pos[k]  elif pos[k] > 1: pos[k] -= 1
Wrap(x) ==
    IF x < 0 THEN One + x
    ELSE IF x > One THEN x - One
    ELSE x

WrapPos(pos) == [k \in 1..Len(pos) |-> Wrap(pos[k])]

\* symop.symops[j] with a list index out of range
SymopAtClamped(ops, jj) ==
    IF Len(ops) = 0 THEN Raise("IndexError")
    ELSE Ok(ops[(IF jj < Len(ops) THEN jj ELSE Len(ops) - 1) + 1])

\* symop.symops[j], j >= 0: IndexError when j is not below the length
SymopAt(ops, jj) ==
    IF jj < Len(ops) THEN Ok(ops[jj + 1]) ELSE Raise("IndexError")

\* the label appended with the record of atom i: a plausible slip, atom 0's
LabelOfFirst(struct, ii) == struct.atoms[1]

\* atoms.append(struct.atoms[i])
LabelOf(struct, ii) == struct.atoms[ii + 1]

\* One pass of the inner loop body of apply_symops_pos for the pair (i, j),
\* given o, the outcome of symop.symops[j]: the record appended, or the
\* exception raised.
PosRecordWith(o, struct, ii) ==
    IF ~o.ok THEN o
    ELSE IF ~ApplyDefined(o.val, struct.positions[ii + 1]) THEN Raise("IndexError")
    ELSE Ok([atom |-> LabelOf(struct, ii),
             pos  |-> WrapPos(Apply(o.val, struct.positions[ii + 1]))])

\* o is symop.symops[j]
PosRecord(struct, ops, ii, jj) == PosRecordWith(SymopAt(ops, jj), struct, ii)

\* ------------------------------------------------------------ inputs
Fe == <<"F", "e">>

Ox == <<"O">>

\* basis atoms: label and fractional position
BasisSet ==
    { [label |-> Fe, position |-> <<0 - Half, 0, One + Half>>],
      [label |-> Ox, position |-> <<Half, One, Half>>] }

IdMatrix == << <<One, 0, 0>>, <<0, One, 0>>, <<0, 0, One>> >>

InvMatrix == << <<0 - One, 0, 0>>, <<0, 0 - One, 0>>, <<0, 0, 0 - One>> >>

\* identity; inversion through the origin translated by (1,1,1); a shift
\* by (1/2,1/2,1/2)
OpSet ==
    { [vector |-> <<0, 0, 0>>, matrix |-> IdMatrix],
      [vector |-> <<One, One, One>>, matrix |-> InvMatrix],
      [vector |-> <<Half, Half, Half>>, matrix |-> IdMatrix] }

\* a vesta_struc object from a sequence of <<basis atom, symmetry count>>
MkStruc(basis) ==
    [atoms     |-> [k \in 1..Len(basis) |-> basis[k][1].label],
     positions |-> [k \in 1..Len(basis) |-> basis[k][1].position],
     symops    |-> [k \in 1..Len(basis) |-> basis[k][2]]]

Strucs == {MkStruc(b) : b \in SeqsUpTo(BasisSet \X (0..(MaxOps + 1)), MaxAtoms)}

Symops == {[symops |-> o] : o \in SeqsUpTo(OpSet, MaxOps)}

NoFile == [opened |-> FALSE, content |-> <<>>]

\* ------------------------------------------------------------ apply_symops_pos
\* apply_symops_pos(struct, symop), called on decoded records.
InitPos ==
    /\ pc = "pos"
    /\ err = ""
    /\ spin = "nospin"
    /\ doc = <<>>
    /\ idx = 0
    /\ keyword = <<>>
    /\ data_block = <<>>
    /\ \E s \in Strucs, o \in Symops : vesta_objs = (STRUC :> s) @@ (SYMOP :> o)
    /\ i = 0
    /\ j = 0
    /\ atoms = <<>>
    /\ positions = <<>>
    /\ atom_pos = None
    /\ castep_objs = None
    /\ file = NoFile
    /\ obj = None
    /\ string = <<>>

\* atoms.append(struct.atoms[i]); positions.append(pos), when r is a record
PosAppend(r) ==
    /\ r.ok
    /\ atoms' = Append(atoms, r.val.atom)
    /\ positions' = Append(positions, r.val.pos)

\* r is an exception: it ends the run
Raised(r) ==
    /\ ~r.ok
    /\ err' = r.err

\* the body of `for j in range(struct.symops[i])`, no exception
PosBody ==
    /\ pc = "pos"
    /\ i < Len(vesta_objs[STRUC].atoms)
    /\ j < vesta_objs[STRUC].symops[i + 1]
    /\ PosAppend(PosRecord(vesta_objs[STRUC], vesta_objs[SYMOP].symops, i, j))
    /\ j' = j + 1
    /\ UNCHANGED <<pc, err, spin, doc, idx, keyword, data_block, vesta_objs,
                   i, atom_pos, castep_objs, file, obj, string>>

\* the body raises: the call ends, its locals are lost, nothing is returned
PosRaise ==
    /\ pc = "pos"
    /\ i < Len(vesta_objs[STRUC].atoms)
    /\ j < vesta_objs[STRUC].symops[i + 1]
    /\ Raised(PosRecord(vesta_objs[STRUC], vesta_objs[SYMOP].symops, i, j))
    /\ pc' = "error"
    /\ atoms' = <<>>
    /\ positions' = <<>>
    /\ UNCHANGED <<spin, doc, idx, keyword, data_block, vesta_objs,
                   i, j, atom_pos, castep_objs, file, obj, string>>

\* range(struct.symops[i]) is exhausted: the next atom
PosNextAtom ==
    /\ pc = "pos"
    /\ i < Len(vesta_objs[STRUC].atoms)
    /\ j >= vesta_objs[STRUC].symops[i + 1]
    /\ i' = i + 1
    /\ j' = 0
    /\ UNCHANGED <<pc, err, spin, doc, idx, keyword, data_block, vesta_objs,
                   atoms, positions, atom_pos, castep_objs, file, obj, string>>

\* return atoms,positions; the caller builds castep_positions_frac
PosReturn ==
    /\ pc = "pos"
    /\ i >= Len(vesta_objs[STRUC].atoms)
    /\ atom_pos' = Some([atoms |-> atoms, positions |-> positions, vectors |-> None])
    /\ pc' = "returned"
    /\ UNCHANGED <<err, spin, doc, idx, keyword, data_block, vesta_objs,
                   i, j, atoms, positions, castep_objs, file, obj, string>>

NextPos == PosBody \/ PosRaise \/ PosNextAtom \/ PosReturn

SpecPos == InitPos /\ [][NextPos]_vars


\* ------------------------------------------------------------ expected order
\* range(n) runs n times for n > 0 and not at all otherwise
Runs(n) == IF n > 0 THEN n ELSE 0

RECURSIVE RecordsBefore(_, _)
\* the number of records the atoms before atom ii (0-based) contribute
RecordsBefore(struct, ii) ==
    IF ii = 0 THEN 0
    ELSE RecordsBefore(struct, ii - 1) + Runs(struct.symops[ii])

\* the basis atom (0-based) that record k (0-based) belongs to, atom-major
AtomOfRecord(struct, k) ==
    CHOOSE ii \in 0..(Len(struct.atoms) - 1) :
        /\ RecordsBefore(struct, ii) <= k
        /\ k < RecordsBefore(struct, ii + 1)

\* the operation index (0-based) of record k within its atom
OpOfRecord(struct, k) == k - RecordsBefore(struct, AtomOfRecord(struct, k))

CountsInRange(struct, ops) ==
    \A a \in 1..Len(struct.symops) :
        0 <= struct.symops[a] /\ struct.symops[a] <= Len(ops)

\* the unwrapped position of record k (0-based)
RawOfRecord(struct, ops, k) ==
    Apply(ops[OpOfRecord(struct, k) + 1],
          struct.positions[AtomOfRecord(struct, k) + 1])

\* ------------------------------------------------------------ claims on apply_symops_pos
\* C1: every component whose unwrapped value lies in the open interval (-1, 2)
\* is wrapped to a value in [0, 1), and wrapping it again changes nothing.
C1_WrapIntoUnitInterval ==
    LET struct == vesta_objs[STRUC]
        ops == vesta_objs[SYMOP].symops
    IN  \A k \in 1..Len(positions) : \A c \in 1..3 :
        LET raw == RawOfRecord(struct, ops, k - 1)[c]
        IN  (0 - One < raw /\ raw < 2 * One) =>
                /\ 0 <= positions[k][c]
                /\ positions[k][c] < One
                /\ Wrap(positions[k][c]) = positions[k][c]

\* C2: with every symmetry count between 0 and the number of operations,
\* apply_symops_pos returns (it does not raise) labels and positions of equal
\* length, the sum of the counts, in atom-major order: record k carries the
\* label of its atom and the wrapped image of the atom's position under its
\* operation.
C2_AtomMajorExpansion ==
    LET struct == vesta_objs[STRUC]
        ops == vesta_objs[SYMOP].symops
    IN  CountsInRange(struct, ops) =>
        /\ pc # "error"
        /\ pc = "returned" =>
            /\ Len(The(atom_pos).atoms) = RecordsBefore(struct, Len(struct.atoms))
            /\ Len(The(atom_pos).positions) = Len(The(atom_pos).atoms)
            /\ \A k \in 1..Len(The(atom_pos).atoms) :
                /\ The(atom_pos).atoms[k] = struct.atoms[AtomOfRecord(struct, k - 1) + 1]
                /\ The(atom_pos).positions[k] = WrapPos(RawOfRecord(struct, ops, k - 1))

\* two atoms of different labels, each expanded by two operations
C2_Witness ==
    /\ pc = "returned"
    /\ CountsInRange(vesta_objs[STRUC], vesta_objs[SYMOP].symops)
    /\ Len(vesta_objs[STRUC].atoms) = 2
    /\ vesta_objs[STRUC].atoms[1] # vesta_objs[STRUC].atoms[2]
    /\ vesta_objs[STRUC].symops = <<2, 2>>
    /\ Len(The(atom_pos).atoms) = 4

\* the first atom (0-based) whose count exceeds the number of operations
FirstOver(struct, ops) ==
    CHOOSE a \in 0..(Len(struct.atoms) - 1) :
        /\ struct.symops[a + 1] > Len(ops)
        /\ \A b \in 0..(a - 1) : struct.symops[b + 1] <= Len(ops)

\* C6: when some atom's symmetry count exceeds the number of operations the
\* call never returns: it raises IndexError at the first pair (i, j) with
\* j not below the number of operations, and no list, not even a partial one,
\* reaches the caller.
C6_OutOfRangeAborts ==
    LET struct == vesta_objs[STRUC]
        ops == vesta_objs[SYMOP].symops
    IN  (\E a \in 1..Len(struct.symops) : struct.symops[a] > Len(ops)) =>
        /\ pc \in {"pos", "error"}
        /\ atom_pos = None
        /\ pc = "pos" => ENABLED NextPos
        /\ pc = "error" =>
            /\ err = "IndexError"
            /\ i = FirstOver(struct, ops)
            /\ j = Len(ops)
            /\ atoms = <<>>
            /\ positions = <<>>

\* the second atom is the one out of range, after the first was expanded
C6_Witness ==
    /\ pc = "error"
    /\ err = "IndexError"
    /\ i = 1
    /\ vesta_objs[STRUC].symops[1] = 2
    /\ vesta_objs[STRUC].symops[2] > Len(vesta_objs[SYMOP].symops)


\* ------------------------------------------------------------ whole calls
RECURSIVE PosLoop(_, _, _, _, _)
\* the rest of the loops after the body for (ii, jj) gave r
PosLoopAfter(r, struct, ops, ii, jj, acc) ==
    IF ~r.ok THEN r
    ELSE PosLoop(struct, ops, ii, jj + 1,
                 [atoms |-> Append(acc.atoms, r.val.atom),
                  positions |-> Append(acc.positions, r.val.pos)])

\* the two loops of apply_symops_pos from the position (ii, jj) on
PosLoop(struct, ops, ii, jj, acc) ==
    IF ii >= Len(struct.atoms) THEN Ok(acc)
    ELSE IF jj >= struct.symops[ii + 1] THEN PosLoop(struct, ops, ii + 1, 0, acc)
    ELSE PosLoopAfter(PosRecord(struct, ops, ii, jj), struct, ops, ii, jj, acc)

\* apply_symops_pos(struct, symop): (atoms, positions) or the exception
ApplySymopsPos(struct, symop) ==
    PosLoop(struct, symop.symops, 0, 0, [atoms |-> <<>>, positions |-> <<>>])

\* One pass of the inner loop body of apply_symops_vec for the pair (i, j),
\* given o, the outcome of symop.symops[j]: the vector appended, or the
\* exception raised.
VecRecordWith(o, vectors, ii) ==
    IF ~o.ok THEN o
    ELSE IF ~ApplyMatDefined(o.val, vectors[ii + 1]) THEN Raise("IndexError")
    ELSE Ok(ApplyMat(o.val, vectors[ii + 1]))

\* o is symop.symops[j]
VecRecord(vectors, ops, ii, jj) == VecRecordWith(SymopAt(ops, jj), vectors, ii)

RECURSIVE VecLoop(_, _, _, _, _, _)
\* the rest of the loops after the body for (ii, jj) gave r
VecLoopAfter(r, vectors, struct, ops, ii, jj, acc) ==
    IF ~r.ok THEN r
    ELSE VecLoop(vectors, struct, ops, ii, jj + 1, Append(acc, r.val))

\* the two loops of apply_symops_vec from the position (ii, jj) on
VecLoop(vectors, struct, ops, ii, jj, acc) ==
    IF ii >= Len(vectors) THEN Ok(acc)
    ELSE IF ii >= Len(struct.symops) THEN Raise("IndexError")
    ELSE IF jj >= struct.symops[ii + 1]
         THEN VecLoop(vectors, struct, ops, ii + 1, 0, acc)
    ELSE VecLoopAfter(VecRecord(vectors, ops, ii, jj), vectors, struct, ops, ii, jj, acc)

\* apply_symops_vec(vectors, struct, symop, atom_pos): the final
\* atom_pos.vectors, or the exception
ApplySymopsVec(vectors, struct, symop) ==
    VecLoop(vectors.vectors, struct, symop.symops, 0, 0, <<>>)

\* ------------------------------------------------------------ apply_symops_vec
\* moment vectors as vesta_vectr.parse leaves them
MomSet == { <<0, 0, One>>, <<Half, 0, 0 - Half>> }

Vectrs == {[vectors |-> v] : v \in SeqsUpTo(MomSet, MaxVecs)}

IronOnly == {b \in BasisSet : b.label = Fe}

StrucsVec == {MkStruc(b) : b \in SeqsUpTo(IronOnly \X (0..(MaxOps + 1)), MaxAtoms)}

\* apply_symops_vec as vesta_to_castep calls it in noncollinear mode: after
\* apply_symops_pos has returned and atom_pos has been constructed.
InitVec ==
    /\ pc = "vec"
    /\ err = ""
    /\ spin = "noncollinear"
    /\ doc = <<>>
    /\ idx = 0
    /\ keyword = <<>>
    /\ data_block = <<>>
    /\ i = 0
    /\ j = 0
    /\ atoms = <<>>
    /\ positions = <<>>
    /\ castep_objs = None
    /\ file = NoFile
    /\ obj = None
    /\ string = <<>>
    /\ \E s \in StrucsVec, o \in Symops, v \in Vectrs :
        /\ ApplySymopsPos(s, o).ok
        /\ vesta_objs = (STRUC :> s) @@ (SYMOP :> o) @@ (VECTR :> v)
        /\ atom_pos = Some([atoms |-> ApplySymopsPos(s, o).val.atoms,
                            positions |-> ApplySymopsPos(s, o).val.positions,
                            vectors |-> None])

\* atom_pos.vectors = []
VecEnter ==
    /\ pc = "vec"
    /\ atom_pos' = Some([The(atom_pos) EXCEPT !.vectors = Some(<<>>)])
    /\ pc' = "vec_loop"
    /\ UNCHANGED <<err, spin, doc, idx, keyword, data_block, vesta_objs,
                   i, j, atoms, positions, castep_objs, file, obj, string>>

\* atom_pos.vectors.append(pos), when r is a vector
VecAppend(r) ==
    /\ r.ok
    /\ atom_pos' = Some([The(atom_pos) EXCEPT !.vectors = Some(Append(The(@), r.val))])

\* the body of `for j in range(struct.symops[i])`, no exception
VecBody ==
    /\ pc = "vec_loop"
    /\ i < Len(vesta_objs[VECTR].vectors)
    /\ i < Len(vesta_objs[STRUC].symops)
    /\ j < vesta_objs[STRUC].symops[i + 1]
    /\ VecAppend(VecRecord(vesta_objs[VECTR].vectors, vesta_objs[SYMOP].symops, i, j))
    /\ j' = j + 1
    /\ UNCHANGED <<pc, err, spin, doc, idx, keyword, data_block, vesta_objs,
                   i, atoms, positions, castep_objs, file, obj, string>>

\* struct.symops[i] or the body raises: atom_pos is lost with the call
VecRaise ==
    /\ pc = "vec_loop"
    /\ i < Len(vesta_objs[VECTR].vectors)
    /\ \/ i >= Len(vesta_objs[STRUC].symops)
       \/ /\ i < Len(vesta_objs[STRUC].symops)
          /\ j < vesta_objs[STRUC].symops[i + 1]
          /\ ~VecRecord(vesta_objs[VECTR].vectors, vesta_objs[SYMOP].symops, i, j).ok
    /\ err' = "IndexError"
    /\ pc' = "error"
    /\ atom_pos' = None
    /\ UNCHANGED <<spin, doc, idx, keyword, data_block, vesta_objs,
                   i, j, atoms, positions, castep_objs, file, obj, string>>

\* range(struct.symops[i]) is exhausted: the next vector
VecNextVector ==
    /\ pc = "vec_loop"
    /\ i < Len(vesta_objs[VECTR].vectors)
    /\ i < Len(vesta_objs[STRUC].symops)
    /\ j >= vesta_objs[STRUC].symops[i + 1]
    /\ i' = i + 1
    /\ j' = 0
    /\ UNCHANGED <<pc, err, spin, doc, idx, keyword, data_block, vesta_objs,
                   atoms, positions, atom_pos, castep_objs, file, obj, string>>

\* the outer loop ends: apply_symops_vec returns
VecReturn ==
    /\ pc = "vec_loop"
    /\ i >= Len(vesta_objs[VECTR].vectors)
    /\ pc' = "returned"
    /\ UNCHANGED <<err, spin, doc, idx, keyword, data_block, vesta_objs,
                   i, j, atoms, positions, atom_pos, castep_objs, file, obj, string>>

NextVec == VecEnter \/ VecBody \/ VecRaise \/ VecNextVector \/ VecReturn

SpecVec == InitVec /\ [][NextVec]_vars

\* ------------------------------------------------------------ claims on apply_symops_vec
\* C8: once apply_symops_vec has returned, every expanded atom record has a
\* moment at its own index, the matrix-only image (no translation, no
\* wraparound) of the moment of its basis atom under its operation: the
\* vectors list is aligned one-to-one with the atoms list.
C8_MomentsAligned ==
    LET struct == vesta_objs[STRUC]
        ops == vesta_objs[SYMOP].symops
        moments == vesta_objs[VECTR].vectors
    IN  pc = "returned" =>
        /\ Len(The(The(atom_pos).vectors)) = Len(The(atom_pos).atoms)
        /\ \A k \in 1..Len(The(atom_pos).atoms) :
            /\ AtomOfRecord(struct, k - 1) < Len(moments)
            /\ The(The(atom_pos).vectors)[k] =
                   ApplyMat(ops[OpOfRecord(struct, k - 1) + 1],
                            moments[AtomOfRecord(struct, k - 1) + 1])

\* What the code does keep: the vectors list is the aligned prefix that the
\* supplied moments cover.
VecPrefixAligned ==
    LET struct == vesta_objs[STRUC]
        ops == vesta_objs[SYMOP].symops
        moments == vesta_objs[VECTR].vectors
    IN  pc = "returned" =>
        /\ Len(The(The(atom_pos).vectors)) <= Len(The(atom_pos).atoms)
        /\ Len(moments) = Len(struct.atoms) =>
               Len(The(The(atom_pos).vectors)) = Len(The(atom_pos).atoms)
        /\ \A k \in 1..Len(The(The(atom_pos).vectors)) :
            The(The(atom_pos).vectors)[k] =
                ApplyMat(ops[OpOfRecord(struct, k - 1) + 1],
                         moments[AtomOfRecord(struct, k - 1) + 1])


\* ------------------------------------------------------------ text
UpperChars ==
    {"A", "B", "C", "D", "E", "F", "G", "H", "I", "J", "K", "L", "M",
     "N", "O", "P", "Q", "R", "S", "T", "U", "V", "W", "X", "Y", "Z"}

LowerChars ==
    {"a", "b", "c", "d", "e", "f", "g", "h", "i", "j", "k", "l", "m",
     "n", "o", "p", "q", "r", "s", "t", "u", "v", "w", "x", "y", "z"}

DigitChars == <<"0", "1", "2", "3", "4", "5", "6", "7", "8", "9">>

IsDigit(c) == c \in {DigitChars[d] : d \in 1..Len(DigitChars)}

DigitVal(c) == (CHOOSE d \in 1..Len(DigitChars) : DigitChars[d] = c) - 1

AllDigits(s) == \A k \in 1..Len(s) : IsDigit(s[k])

RECURSIVE NatOf(_)
\* the number a sequence of decimal digits writes
NatOf(s) ==
    IF s = <<>> THEN 0
    ELSE NatOf(SubSeq(s, 1, Len(s) - 1)) * Len(DigitChars) + DigitVal(s[Len(s)])

\* Python's s[a:b] for 0 <= a <= b
Slice(s, a, b) == SubSeq(s, a + 1, IF b < Len(s) THEN b ELSE Len(s))

\* Python's s[a:]
SliceFrom(s, a) == SubSeq(s, a + 1, Len(s))

\* some character of the line (spaces aside) is in S
HasChar(line, S) ==
    {t \in 1..Len(line) : {k \in 1..Len(line[t]) : line[t][k] \in S} # {}} # {}

\* str.isupper(): some cased character, and no lowercase one
IsUpper(line) == HasChar(line, UpperChars) /\ ~HasChar(line, LowerChars)

\* `line.isupper() and not line[0].isnumeric()`
IsHeader(line) == IsUpper(line) /\ ~IsDigit(line[1][1])

\* a token without its sign
Unsigned(tok) == IF tok # <<>> /\ tok[1] \in {"-", "+"} THEN Tail(tok) ELSE tok

Negative(tok) == tok # <<>> /\ tok[1] = "-"

\* the value in tenths of the fractional digits: the literals carry one
\* significant fractional digit (0.5, 0.50000)
FracTenths(frac) ==
    IF frac = <<>> THEN 0 ELSE DigitVal(frac[1]) * (One \div Len(DigitChars))

\* -1 for a token with a minus sign, 1 otherwise
SignOf(tok) == IF Negative(tok) THEN 0 - 1 ELSE 1

\* digits "." digits, at least one digit in all, the point at place d of u
ParseFraction(u, d, sign) ==
    IF /\ AllDigits(SubSeq(u, 1, d - 1))
       /\ AllDigits(SubSeq(u, d + 1, Len(u)))
       /\ Len(u) > 1
    THEN Ok(sign * (NatOf(SubSeq(u, 1, d - 1)) * One
                    + FracTenths(SubSeq(u, d + 1, Len(u)))))
    ELSE Raise("ValueError")

\* the unsigned part u of a token, with the places of its points
ParseUnsigned(u, dots, sign) ==
    IF dots = {}
    THEN IF u # <<>> /\ AllDigits(u) THEN Ok(sign * NatOf(u) * One)
         ELSE Raise("ValueError")
    ELSE IF Cardinality(dots) # 1 THEN Raise("ValueError")
    ELSE ParseFraction(u, CHOOSE k \in dots : TRUE, sign)

\* the places of the decimal points of u
PointsOf(u) == {k \in 1..Len(u) : u[k] = "."}

\* float(tok) for [sign] digits [. digits]; ValueError for any other token
ParseFloat(tok) == ParseUnsigned(Unsigned(tok), PointsOf(Unsigned(tok)), SignOf(tok))

\* the unsigned part u of a token as an integer
ParseDigits(u, sign) ==
    IF u # <<>> /\ AllDigits(u) THEN Ok(sign * NatOf(u)) ELSE Raise("ValueError")

\* int(tok) for [sign] digits; ValueError for any other token
ParseInt(tok) == ParseDigits(Unsigned(tok), SignOf(tok))

\* a sequence of results: the first exception, or the sequence of the values
Collect(rs) ==
    IF \E k \in 1..Len(rs) : ~rs[k].ok
    THEN rs[CHOOSE k \in 1..Len(rs) :
                ~rs[k].ok /\ \A m \in 1..(k - 1) : rs[m].ok]
    ELSE Ok([k \in 1..Len(rs) |-> rs[k].val])

\* list(map(float, toks))
MapFloat(toks) == Collect([k \in 1..Len(toks) |-> ParseFloat(toks[k])])

\* ------------------------------------------------------------ decoders
\* symop(vec, mat) from the four lists, or the ValueError of float
SymopOf(vec, m1, m2, m3) ==
    IF vec.ok /\ m1.ok /\ m2.ok /\ m3.ok
    THEN Ok([vector |-> vec.val, matrix |-> <<m1.val, m2.val, m3.val>>])
    ELSE Raise("ValueError")

\* vesta_symop.parse, one line: sep[0:3] and the rows sep[3:6], sep[6:9],
\* sep[9:12]
SymopOfLine(sep) ==
    SymopOf(MapFloat(Slice(sep, 0, 3)), MapFloat(Slice(sep, 3, 6)),
            MapFloat(Slice(sep, 6, 9)), MapFloat(Slice(sep, 9, 12)))

\* self.symops from the outcomes of the lines
SymopsOf(rs) == IF rs.ok THEN Ok([symops |-> rs.val]) ELSE rs

\* vesta_symop(data)
SymopParse(data) ==
    SymopsOf(Collect([k \in 1..Len(data) |-> SymopOfLine(data[k])]))

\* self.params, self.angles from the two lists
CellpOf(params, angles) ==
    IF ~params.ok THEN params
    ELSE IF ~angles.ok THEN angles
    ELSE Ok([params |-> params.val, angles |-> angles.val])

\* vesta_cellp(data): data[0].split()[0:3] and data[0].split()[3:]
CellpParse(data) ==
    IF data = <<>> THEN Raise("IndexError")
    ELSE CellpOf(MapFloat(Slice(data[1], 0, 3)), MapFloat(SliceFrom(data[1], 3)))

\* `"." not in line.split()[0] and line[0] != "0"`, for a line with a token
IsAtomRow(line) ==
    /\ {k \in 1..Len(line[1]) : line[1][k] = "."} = {}
    /\ line[1][1] # "0"

Skipped == [skipped |-> TRUE]

\* self.symops.append(int(line.split()[7]))
StrucRowCount(line, pos, n) ==
    IF ~n.ok THEN n
    ELSE Ok([atom |-> line[2], position |-> pos.val, symops |-> n.val])

\* self.positions.append(list(map(float, line.split()[4:7])))
StrucRowPosition(line, pos) ==
    IF ~pos.ok THEN pos
    ELSE IF Len(line) < 8 THEN Raise("IndexError")
    ELSE StrucRowCount(line, pos, ParseInt(line[8]))

\* vesta_struc.parse, one line: the (atom, position, symops) appended, Skipped
\* when the test fails, or the exception
StrucOfLine(line) ==
    IF line = <<>> THEN Raise("IndexError")
    ELSE IF ~IsAtomRow(line) THEN Ok(Skipped)
    ELSE IF Len(line) < 2 THEN Raise("IndexError")
    ELSE StrucRowPosition(line, MapFloat(Slice(line, 4, 7)))

IsRow(r) == r # Skipped

\* the three lists from the rows appended
StrucOfRows(rows) ==
    Ok([atoms |-> [k \in 1..Len(rows) |-> rows[k].atom],
        positions |-> [k \in 1..Len(rows) |-> rows[k].position],
        symops |-> [k \in 1..Len(rows) |-> rows[k].symops]])

\* the object from the outcomes of the lines
StrucOf(rs) == IF ~rs.ok THEN rs ELSE StrucOfRows(SelectSeq(rs.val, IsRow))

\* vesta_struc(data)
StrucParse(data) ==
    StrucOf(Collect([k \in 1..Len(data) |-> StrucOfLine(data[k])]))

\* range(0, len(self.data), 3): every third line to the end of the buffer
VectrStopAtEnd(data) == Len(data)

\* the stop of range(0, len(self.data)-2, 3)
VectrStop(data) == Len(data) - 2

\* vesta_vectr.parse, the body for line index ii (0-based)
VectrOfLine(data, ii) == MapFloat(Slice(data[ii + 1], 1, 4))

RECURSIVE VectrLoop(_, _, _)
\* the rest of the loop after the body for index ii gave r
VectrLoopAfter(r, data, ii, acc) ==
    IF ~r.ok THEN r ELSE VectrLoop(data, ii + 3, Append(acc, r.val))

\* the loop of vesta_vectr.parse from index ii on
VectrLoop(data, ii, acc) ==
    IF ii >= VectrStop(data) THEN Ok(acc)
    ELSE VectrLoopAfter(VectrOfLine(data, ii), data, ii, acc)

\* the object from the outcome of the loop
VectrOf(r) == IF r.ok THEN Ok([vectors |-> r.val]) ELSE r

\* vesta_vectr(data)
VectrParse(data) == VectrOf(VectrLoop(data, 0, <<>>))

\* vesta_block: the recognized keywords
VestaBlockKeys == {SYMOP, CELLP, STRUC, VECTR}

\* vesta_block[keyword](data_block)
Decode(kw, data) ==
    CASE kw = SYMOP -> SymopParse(data)
      [] kw = CELLP -> CellpParse(data)
      [] kw = STRUC -> StrucParse(data)
      [] kw = VECTR -> VectrParse(data)


\* ------------------------------------------------------------ input lines
T0 == <<"0">>

T1 == <<"1">>

T2 == <<"2">>

F00 == <<"0", ".", "0">>

F05 == <<"0", ".", "5">>

F10 == <<"1", ".", "0">>

FM05 == <<"-", "0", ".", "5">>

\* "1 0.0 0.0 1.0 0": the first line of a VECTR group
VecLineUp == <<T1, F00, F00, F10, T0>>

\* "2 0.5 0.0 -0.5 0"
VecLineDown == <<T2, F05, F00, FM05, T0>>

\* "1 0 0 0 0": the second line of a VECTR group, the atom the vector is on
VecAtomLine == <<T1, T0, T0, T0, T0>>

\* "0 0 0 0 0": the line that ends a VECTR group, and the section
ZeroLine == <<T0, T0, T0, T0, T0>>

\* "1 x 0.0 0.0": a token that is no number
VecLineBad == <<T1, <<"x">>, F00, F00>>

VectrLines == {VecLineUp, VecLineDown, VecAtomLine, ZeroLine, VecLineBad}

\* ------------------------------------------------------------ vesta_vectr.parse
\* vesta_vectr(data) on a buffer, after __init__ has set self.vectors = []
InitVectr ==
    /\ pc = "vectr"
    /\ err = ""
    /\ spin = "nospin"
    /\ doc = <<>>
    /\ idx = 0
    /\ keyword = VECTR
    /\ data_block \in SeqsUpTo(VectrLines, MaxBuf)
    /\ vesta_objs = <<>>
    /\ i = 0
    /\ j = 0
    /\ atoms = <<>>
    /\ positions = <<>>
    /\ atom_pos = None
    /\ castep_objs = None
    /\ file = NoFile
    /\ obj = Some([vectors |-> <<>>])
    /\ string = <<>>

\* self.vectors.append(list(map(float, self.data[i].split()[1:4])))
VectrBody ==
    /\ pc = "vectr"
    /\ i < VectrStop(data_block)
    /\ VectrOfLine(data_block, i).ok
    /\ obj' = Some([vectors |-> Append(The(obj).vectors, VectrOfLine(data_block, i).val)])
    /\ i' = i + 3
    /\ UNCHANGED <<pc, err, spin, doc, idx, keyword, data_block, vesta_objs,
                   j, atoms, positions, atom_pos, castep_objs, file, string>>

\* float raises: the constructor does not return an object
VectrRaise ==
    /\ pc = "vectr"
    /\ i < VectrStop(data_block)
    /\ ~VectrOfLine(data_block, i).ok
    /\ err' = VectrOfLine(data_block, i).err
    /\ pc' = "error"
    /\ obj' = None
    /\ UNCHANGED <<spin, doc, idx, keyword, data_block, vesta_objs,
                   i, j, atoms, positions, atom_pos, castep_objs, file, string>>

\* the range is exhausted
VectrReturn ==
    /\ pc = "vectr"
    /\ i >= VectrStop(data_block)
    /\ pc' = "returned"
    /\ UNCHANGED <<err, spin, doc, idx, keyword, data_block, vesta_objs,
                   i, j, atoms, positions, atom_pos, castep_objs, file, obj, string>>

NextVectr == VectrBody \/ VectrRaise \/ VectrReturn

SpecVectr == InitVectr /\ [][NextVectr]_vars

\* ------------------------------------------------------------ claims on vesta_vectr.parse
\* the 0-based indices below n that are multiples of 3
GroupStarts(n) == {m \in 0..(n - 1) : m % 3 = 0}

\* C9: for a buffer of any length n, every line at an index 0, 3, 6, ... < n
\* gives exactly one vector, tokens[1:4] of that line, in buffer order, and no
\* other line gives one.
C9_EveryThirdLine ==
    pc = "returned" =>
        /\ Len(The(obj).vectors) = Cardinality(GroupStarts(Len(data_block)))
        /\ \A g \in 1..Len(The(obj).vectors) :
            Ok(The(obj).vectors[g]) = MapFloat(Slice(data_block[3 * (g - 1) + 1], 1, 4))

\* C9 as the code has it: the lines that give a vector are those at an index
\* m = 0, 3, 6, ... with m + 2 < n, the first lines of the complete groups of
\* three; a trailing group of one or two lines gives none.
C9_EveryCompleteGroup ==
    pc = "returned" =>
        /\ Len(The(obj).vectors) = Len(data_block) \div 3
        /\ Len(The(obj).vectors) =
               Cardinality({m \in GroupStarts(Len(data_block)) : m + 2 < Len(data_block)})
        /\ \A g \in 1..Len(The(obj).vectors) :
            Ok(The(obj).vectors[g]) = MapFloat(Slice(data_block[3 * (g - 1) + 1], 1, 4))

\* two groups and the line that ends the section: two vectors from seven
\* lines (six lines when the bound stops there)
C9_Witness ==
    /\ pc = "returned"
    /\ Len(data_block) >= 6
    /\ data_block[1] = VecLineUp
    /\ data_block[4] = VecLineDown
    /\ The(obj).vectors = << <<0, 0, One>>, <<Half, 0, 0 - Half>> >>


\* ------------------------------------------------------------ read_vesta
\* keyword = "", data_block = [], vesta_objs = {}
ReadStart == [keyword |-> <<>>, data_block |-> <<>>, vesta_objs |-> <<>>]

\* vesta_objs[keyword] = obj; keyword = line; data_block = []
ReadStored(o, st, line) ==
    IF ~o.ok THEN o
    ELSE Ok([keyword |-> line,
             data_block |-> <<>>,
             vesta_objs |-> (st.keyword :> o.val) @@ st.vesta_objs])

\* a slip: the buffer is reset only when it has been decoded
ReadStepResetOnDecode(st, line) ==
    IF IsHeader(line)
    THEN IF st.keyword \in VestaBlockKeys
         THEN ReadStored(Decode(st.keyword, st.data_block), st, line)
         ELSE Ok([st EXCEPT !.keyword = line])
    ELSE Ok([st EXCEPT !.data_block = Append(@, line)])

\* one pass of `for line in data`: the locals after it, or the exception
ReadStep(st, line) ==
    IF IsHeader(line)
    THEN IF st.keyword \in VestaBlockKeys
         THEN ReadStored(Decode(st.keyword, st.data_block), st, line)
         ELSE Ok([st EXCEPT !.keyword = line, !.data_block = <<>>])
    ELSE Ok([st EXCEPT !.data_block = Append(@, line)])

RECURSIVE ReadLoop(_, _, _)
\* the rest of the loop after the pass for line k gave r
ReadLoopAfter(r, data, k) ==
    IF ~r.ok THEN r ELSE ReadLoop(data, k + 1, r.val)

\* the loop of read_vesta from line k (1-based) on
ReadLoop(data, k, st) ==
    IF k > Len(data) THEN Ok(st.vesta_objs)
    ELSE ReadLoopAfter(ReadStep(st, data[k]), data, k)

\* read_vesta on the stripped lines of the file: vesta_objs or the exception
ReadVesta(data) == ReadLoop(data, 1, ReadStart)

\* the locals of read_vesta after a pass that gave r
ReadAssign(r) ==
    /\ r.ok
    /\ keyword' = r.val.keyword
    /\ data_block' = r.val.data_block
    /\ vesta_objs' = r.val.vesta_objs

TITLE == << <<"T", "I", "T", "L", "E">> >>

T90 == <<"9", "0">>

\* "1.0 0.5 1.0 90 90 90"
CellLine == <<F10, F05, F10, T90, T90, T90>>

\* "x": a line of text
TextLine == << <<"x">> >>

ReadLines == {CELLP, VECTR, TITLE, CellLine, TextLine}

ReadLocals == [keyword |-> keyword, data_block |-> data_block, vesta_objs |-> vesta_objs]

InitRead ==
    /\ pc = "read"
    /\ err = ""
    /\ spin = "nospin"
    /\ doc \in SeqsUpTo(ReadLines, MaxLines)
    /\ idx = 0
    /\ keyword = ReadStart.keyword
    /\ data_block = ReadStart.data_block
    /\ vesta_objs = ReadStart.vesta_objs
    /\ i = 0
    /\ j = 0
    /\ atoms = <<>>
    /\ positions = <<>>
    /\ atom_pos = None
    /\ castep_objs = None
    /\ file = NoFile
    /\ obj = None
    /\ string = <<>>

\* the line is a header and nothing raises
ReadHeader ==
    /\ pc = "read"
    /\ idx < Len(doc)
    /\ IsHeader(doc[idx + 1])
    /\ ReadAssign(ReadStep(ReadLocals, doc[idx + 1]))
    /\ idx' = idx + 1
    /\ UNCHANGED <<pc, err, spin, doc, i, j, atoms, positions, atom_pos,
                   castep_objs, file, obj, string>>

\* the line is a header and decoding the finished section raises
ReadRaise ==
    /\ pc = "read"
    /\ idx < Len(doc)
    /\ Raised(ReadStep(ReadLocals, doc[idx + 1]))
    /\ pc' = "error"
    /\ vesta_objs' = <<>>
    /\ UNCHANGED <<spin, doc, idx, keyword, data_block, i, j, atoms, positions,
                   atom_pos, castep_objs, file, obj, string>>

\* the line is no header: data_block.append(line)
ReadData ==
    /\ pc = "read"
    /\ idx < Len(doc)
    /\ ~IsHeader(doc[idx + 1])
    /\ ReadAssign(ReadStep(ReadLocals, doc[idx + 1]))
    /\ idx' = idx + 1
    /\ UNCHANGED <<pc, err, spin, doc, i, j, atoms, positions, atom_pos,
                   castep_objs, file, obj, string>>

\* the lines are exhausted: return vesta_objs
ReadReturn ==
    /\ pc = "read"
    /\ idx >= Len(doc)
    /\ pc' = "returned"
    /\ UNCHANGED <<err, spin, doc, idx, keyword, data_block, vesta_objs, i, j,
                   atoms, positions, atom_pos, castep_objs, file, obj, string>>

NextRead == ReadHeader \/ ReadRaise \/ ReadData \/ ReadReturn

SpecRead == InitRead /\ [][NextRead]_vars

\* ------------------------------------------------------------ claims on read_vesta
HeadersIn(data) == {p \in 1..Len(data) : IsHeader(data[p])}

\* the first header after line p, or one past the end
NextHeaderAfter(data, p) ==
    IF \E q \in HeadersIn(data) : q > p
    THEN CHOOSE q \in HeadersIn(data) :
             q > p /\ \A h \in HeadersIn(data) : h > p => q <= h
    ELSE Len(data) + 1

\* line p opens an unrecognized section that sits between two recognized ones
UnrecognizedBetween(data, p) ==
    /\ p \in HeadersIn(data)
    /\ data[p] \notin VestaBlockKeys
    /\ \E h \in HeadersIn(data) :
        /\ h < p
        /\ data[h] \in VestaBlockKeys
        /\ \A g \in HeadersIn(data) : g < p => g <= h
    /\ NextHeaderAfter(data, p) <= Len(data)
    /\ data[NextHeaderAfter(data, p)] \in VestaBlockKeys

\* the document without the section that line p opens
WithoutSection(data, p) ==
    SubSeq(data, 1, p - 1) \o SubSeq(data, NextHeaderAfter(data, p), Len(data))

\* C3: read_vesta gives the same outcome (the same decoded records, or the
\* same exception) for a document as for the document without an unrecognized
\* section that sits between two recognized sections, and no unrecognized
\* keyword is ever stored.
C3_SectionIndependence ==
    /\ DOMAIN vesta_objs \subseteq VestaBlockKeys
    /\ pc \in {"returned", "error"} =>
        \A p \in 1..Len(doc) :
            UnrecognizedBetween(doc, p) =>
                ReadVesta(WithoutSection(doc, p)) =
                    (IF pc = "returned" THEN Ok(vesta_objs) ELSE Raise(err))

\* CELLP, its line, TITLE with a line of text, VECTR: CELLP is decoded and
\* returned, the text is not
C3_Witness ==
    /\ pc = "returned"
    /\ \E p \in 1..Len(doc) :
        /\ UnrecognizedBetween(doc, p)
        /\ NextHeaderAfter(doc, p) > p + 1
    /\ DOMAIN vesta_objs # {}

\* C7: when read_vesta returns, the mapping holds a decoded record for every
\* recognized keyword that heads a section of the input, the last section
\* included.
C7_EverySectionEmitted ==
    pc = "returned" =>
        \A p \in HeadersIn(doc) :
            doc[p] \in VestaBlockKeys => doc[p] \in DOMAIN vesta_objs

\* What the code does keep: every recognized section that a later header
\* line ends is in the mapping.
SectionsBeforeAHeaderEmitted ==
    pc = "returned" =>
        \A p \in HeadersIn(doc) :
            (doc[p] \in VestaBlockKeys /\ NextHeaderAfter(doc, p) <= Len(doc))
                => doc[p] \in DOMAIN vesta_objs


\* ------------------------------------------------------------ formatter
RECURSIVE NatDigits(_)
\* the decimal digits of a natural number
NatDigits(n) ==
    IF n < Len(DigitChars) THEN <<DigitChars[n + 1]>>
    ELSE NatDigits(n \div Len(DigitChars)) \o <<DigitChars[(n % Len(DigitChars)) + 1]>>

\* the digits of |x|: whole part, point, one fractional digit
StrUnsigned(a) ==
    NatDigits(a \div One) \o <<".">>
        \o NatDigits(((a % One) * Len(DigitChars)) \div One)

\* str(x) of a float
Str(x) == IF x < 0 THEN <<"-">> \o StrUnsigned(0 - x) ELSE StrUnsigned(x)

Spaces(n) == [k \in 1..n |-> " "]

\* string[:length] + " "*(length-l): a fixed field, long strings cut
ExtendStrTruncating(str, length) ==
    IF Len(str) > length THEN SubSeq(str, 1, length)
    ELSE str \o Spaces(length - Len(str))

\* extend_str: string + " "*(length-l); " "*n is empty for n <= 0
ExtendStr(str, length) == str \o Spaces(length - Len(str))

\* the greatest member of a finite set of naturals that holds 0
MaxOf(S) == CHOOSE m \in S : \A n \in S : n <= m

\* get_max_length(*arrays): the longest str(elem) over all the arrays, 0
\* when there is none
GetMaxLength(arrays) ==
    MaxOf({0} \cup UNION {{Len(Str(arrays[a][b])) : b \in 1..Len(arrays[a])}
                          : a \in 1..Len(arrays)})

RECURSIVE Fields(_, _)
\* for each value: string += f"{extend_str(str(v),l)} "
Fields(vals, l) ==
    IF vals = <<>> THEN <<>>
    ELSE ExtendStr(Str(Head(vals)), l) \o <<" ">> \o Fields(Tail(vals), l)

\* the width of the label field: extend_str(self.atoms[i],3)
LabelWidth == 3

BlockPositions ==
    <<"%", "b", "l", "o", "c", "k", " ", "p", "o", "s", "i", "t", "i", "o",
      "n", "s", "_", "f", "r", "a", "c">>

EndblockPositions ==
    <<"%", "e", "n", "d", "b", "l", "o", "c", "k", " ", "p", "o", "s", "i",
      "t", "i", "o", "n", "s", "_", "f", "r", "a", "c">>

BlockLattice ==
    <<"%", "b", "l", "o", "c", "k", " ", "l", "a", "t", "t", "i", "c", "e",
      "_", "a", "b", "c">>

EndblockLattice ==
    <<"%", "e", "n", "d", "b", "l", "o", "c", "k", " ", "l", "a", "t", "t",
      "i", "c", "e", "_", "a", "b", "c">>

SpinToken == <<"s", "p", "i", "n", "=">>

\* `if self.vectors:` is false for None and for the empty list
Truthy(v) == v # None /\ The(v) # <<>>

\* the text one pass of `for i in range(len(self.atoms))` appends for atom k
\* (1-based), or the IndexError of self.vectors[i]
AtomRow(ap, k, l, lv) ==
    IF Truthy(ap.vectors) /\ k > Len(The(ap.vectors)) THEN Raise("IndexError")
    ELSE Ok(ExtendStr(ap.atoms[k], LabelWidth)
            \o Fields(ap.positions[k], l)
            \o (IF Truthy(ap.vectors)
                THEN SpinToken \o <<" ">> \o Fields(The(ap.vectors)[k], lv)
                ELSE <<>>)
            \o <<"\n">>)

\* l = get_max_length(*self.positions)
PosWidth(ap) == GetMaxLength(ap.positions)

\* lv = get_max_length(*self.vectors), read only when self.vectors is truthy
VecWidth(ap) == IF Truthy(ap.vectors) THEN GetMaxLength(The(ap.vectors)) ELSE 0

RECURSIVE RowsFrom(_, _, _)
\* the rest of the rows after the row of atom k gave r
RowsAfter(r, ap, k, acc) ==
    IF ~r.ok THEN r ELSE RowsFrom(ap, k + 1, acc \o r.val)

\* the loop over the atoms from atom k (1-based) on
RowsFrom(ap, k, acc) ==
    IF k > Len(ap.atoms) THEN Ok(acc \o EndblockPositions)
    ELSE RowsAfter(AtomRow(ap, k, PosWidth(ap), VecWidth(ap)), ap, k, acc)

\* castep_positions_frac.__repr__: the text, or the exception
PositionsRepr(ap) == RowsFrom(ap, 1, BlockPositions \o <<"\n">>)

\* castep_lattice_abc.__repr__
LatticeRepr(lat) ==
    BlockLattice \o <<"\n">>
        \o Fields(lat.params, GetMaxLength(<<lat.params, lat.angles>>)) \o <<"\n">>
        \o Fields(lat.angles, GetMaxLength(<<lat.params, lat.angles>>)) \o <<"\n">>
        \o EndblockLattice \o <<"\n">>

\* ------------------------------------------------------------ reading text back
\* the positions of the character sep in a text
SepsOf(text, sep) == {k \in 1..Len(text) : text[k] = sep}

\* the position of the m-th sep of a text, 0 before the first and one past
\* the end after the last
SepAt(text, sep, m) ==
    IF m = 0 THEN 0
    ELSE IF m > Cardinality(SepsOf(text, sep)) THEN Len(text) + 1
    ELSE CHOOSE k \in SepsOf(text, sep) :
             Cardinality({q \in SepsOf(text, sep) : q < k}) = m - 1

\* the pieces of text between the occurrences of the character sep
SplitOn(text, sep) ==
    [m \in 1..(Cardinality(SepsOf(text, sep)) + 1) |->
        SubSeq(text, SepAt(text, sep, m - 1) + 1, SepAt(text, sep, m) - 1)]

\* the lines of a text
LinesOf(text) == SplitOn(text, "\n")

IsWord(w) == w # <<>>

\* the whitespace-separated tokens of a line
TokensOf(line) == SelectSeq(SplitOn(line, " "), IsWord)

\* the rows of the positions_frac block of a text: the lines after the
\* %block line and before the %endblock line
RowsBetween(lines) ==
    LET b == CHOOSE k \in 1..Len(lines) : lines[k] = BlockPositions
        e == CHOOSE k \in 1..Len(lines) : lines[k] = EndblockPositions
    IN  SubSeq(lines, b + 1, e - 1)

BlockRows(text) == RowsBetween(LinesOf(text))

\* ------------------------------------------------------------ castep_positions_frac.__repr__
LabelSet == { Ox, Fe, <<"U", "u", "o">>, <<"F", "e", "3", "p">> }

PositionSet == { <<0, Half, One>>, <<0 - Half, 0, One + Half>> }

\* the castep_positions_frac objects: the labels and positions of up to
\* MaxAtoms records, no vectors or one vector for each record
AtomPosSet ==
    UNION { { [atoms |-> [k \in 1..n |-> a[k][1]],
               positions |-> [k \in 1..n |-> a[k][2]],
               vectors |-> IF spins THEN Some([k \in 1..n |-> v]) ELSE None]
              : a \in [1..n -> LabelSet \X PositionSet],
                v \in MomSet, spins \in BOOLEAN }
            : n \in 0..MaxAtoms }

InitRepr ==
    /\ pc = "repr"
    /\ err = ""
    /\ spin = "nospin"
    /\ doc = <<>>
    /\ idx = 0
    /\ keyword = <<>>
    /\ data_block = <<>>
    /\ vesta_objs = <<>>
    /\ i = 0
    /\ j = 0
    /\ atoms = <<>>
    /\ positions = <<>>
    /\ atom_pos \in {Some(ap) : ap \in AtomPosSet}
    /\ castep_objs = None
    /\ file = NoFile
    /\ obj = None
    /\ string = <<>>

\* string = ""; string += "%block positions_frac\n"
ReprBlock ==
    /\ pc = "repr"
    /\ string' = BlockPositions \o <<"\n">>
    /\ pc' = "repr_rows"
    /\ UNCHANGED <<err, spin, doc, idx, keyword, data_block, vesta_objs, i, j,
                   atoms, positions, atom_pos, castep_objs, file, obj>>

\* one pass of `for i in range(len(self.atoms))`
ReprRow ==
    /\ pc = "repr_rows"
    /\ i < Len(The(atom_pos).atoms)
    /\ AtomRow(The(atom_pos), i + 1, PosWidth(The(atom_pos)), VecWidth(The(atom_pos))).ok
    /\ string' = string \o AtomRow(The(atom_pos), i + 1, PosWidth(The(atom_pos)),
                                   VecWidth(The(atom_pos))).val
    /\ i' = i + 1
    /\ UNCHANGED <<pc, err, spin, doc, idx, keyword, data_block, vesta_objs, j,
                   atoms, positions, atom_pos, castep_objs, file, obj>>

\* string += "%endblock positions_frac"; return string
ReprReturn ==
    /\ pc = "repr_rows"
    /\ i >= Len(The(atom_pos).atoms)
    /\ string' = string \o EndblockPositions
    /\ pc' = "returned"
    /\ UNCHANGED <<err, spin, doc, idx, keyword, data_block, vesta_objs, i, j,
                   atoms, positions, atom_pos, castep_objs, file, obj>>

NextRepr == ReprBlock \/ ReprRow \/ ReprReturn

SpecRepr == InitRepr /\ [][NextRepr]_vars

\* ------------------------------------------------------------ claims on __repr__
\* C10: in every row the label is in a field of exactly 3 characters, padded
\* when shorter and cut when longer, so the first position component starts
\* at the same column in every row.
C10_LabelFieldOfThree ==
    pc = "returned" =>
        \A k \in 1..Len(The(atom_pos).atoms) :
            LET row == BlockRows(string)[k]
                label == The(atom_pos).atoms[k]
                first == Str(The(atom_pos).positions[k][1])
            IN  /\ SubSeq(row, 1, LabelWidth) = ExtendStrTruncating(label, LabelWidth)
                /\ SubSeq(row, LabelWidth + 1, LabelWidth + Len(first)) = first

\* C10 as the code has it: a label of up to 3 characters is padded with
\* spaces to a field of exactly 3; a longer label is written whole, and the
\* first position component then starts right after it, at the column of the
\* label's length.
C10_LabelFieldAtLeastThree ==
    pc = "returned" =>
        /\ Len(BlockRows(string)) = Len(The(atom_pos).atoms)
        /\ \A k \in 1..Len(The(atom_pos).atoms) :
            LET row == BlockRows(string)[k]
                label == The(atom_pos).atoms[k]
                first == Str(The(atom_pos).positions[k][1])
                width == IF Len(label) > LabelWidth THEN Len(label) ELSE LabelWidth
            IN  /\ SubSeq(row, 1, Len(label)) = label
                /\ \A c \in (Len(label) + 1)..width : row[c] = " "
                /\ SubSeq(row, width + 1, width + Len(first)) = first

\* a block with a one-character label and a four-character label
C10_Witness ==
    /\ pc = "returned"
    /\ Len(The(atom_pos).atoms) = 2
    /\ Len(The(atom_pos).atoms[1]) = 1
    /\ Len(The(atom_pos).atoms[2]) = 4
    /\ Len(BlockRows(string)) = 2

\* ------------------------------------------------------------ vesta_to_castep
\* castep_lattice_abc(vesta_objs["CELLP"].params, vesta_objs["CELLP"].angles)
LatticeOf(vo) == [params |-> vo[CELLP].params, angles |-> vo[CELLP].angles]

\* castep_positions_frac(atoms, positions), with vectors as v leaves them
AtomPosOf(r, v) ==
    [atoms |-> r.val.atoms, positions |-> r.val.positions, vectors |-> v]

\* castep_objs = [lattice, atom_pos] after apply_symops_vec gave v
ToCastepAfterVec(v, r, vo) ==
    IF ~v.ok THEN v ELSE Ok(<<LatticeOf(vo), AtomPosOf(r, Some(v.val))>>)

\* the rest of vesta_to_castep after apply_symops_pos gave r
ToCastepAfterPos(r, vo, sp) ==
    IF ~r.ok THEN r
    ELSE IF sp # "noncollinear" THEN Ok(<<LatticeOf(vo), AtomPosOf(r, None)>>)
    ELSE IF VECTR \notin DOMAIN vo THEN Raise("KeyError")
    ELSE ToCastepAfterVec(ApplySymopsVec(vo[VECTR], vo[STRUC], vo[SYMOP]), r, vo)

\* vesta_to_castep(vesta_objs, spin): castep_objs, or the exception
VestaToCastep(vo, sp) ==
    IF CELLP \notin DOMAIN vo THEN Raise("KeyError")
    ELSE IF STRUC \notin DOMAIN vo \/ SYMOP \notin DOMAIN vo THEN Raise("KeyError")
    ELSE ToCastepAfterPos(ApplySymopsPos(vo[STRUC], vo[SYMOP]), vo, sp)

\* repr(obj) of an object of castep_objs: the text, or the exception
Repr(o) == IF "params" \in DOMAIN o THEN Ok(LatticeRepr(o)) ELSE PositionsRepr(o)

\* ------------------------------------------------------------ convert: input
TM1 == <<"-", "1">>

\* "0.0 0.0 0.0 1 0 0 0 1 0 0 0 1 1": the identity
IdLine == <<F00, F00, F00, T1, T0, T0, T0, T1, T0, T0, T0, T1, T1>>

\* "1.0 1.0 1.0 -1 0 0 0 -1 0 0 0 -1 1": the inversion, shifted by (1,1,1)
InvLine == <<F10, F10, F10, TM1, T0, T0, T0, TM1, T0, T0, T0, TM1, T1>>

\* the lines of a SYMOP section with n operations: the identity and the
\* shifted inversion in turn
SymopLines(n) == [m \in 1..n |-> IF m % 2 = 1 THEN IdLine ELSE InvLine]

\* "1 Fe Fe1 1.0 -0.5 0.0 0.5 c": an atom row with symmetry count c
AtomLine(c) ==
    <<T1, Fe, <<"F", "e", "1">>, F10, FM05, F00, F05, <<DigitChars[c + 1]>>>>

\* the lines of a STRUC section: each atom row and the row of zeros after it
StrucLines(rows) ==
    [q \in 1..(2 * Len(rows)) |->
        IF q % 2 = 1 THEN AtomLine(rows[(q + 1) \div 2]) ELSE ZeroLine]

\* the lines of a VECTR section with k vectors: for each its line, the line
\* of its atom and a line of zeros, and a last line of zeros
VectrLinesOf(k) ==
    [q \in 1..(3 * k + 1) |->
        IF q % 3 = 1 /\ q < 3 * k
        THEN (IF ((q + 2) \div 3) % 2 = 1 THEN VecLineUp ELSE VecLineDown)
        ELSE IF q % 3 = 2 THEN VecAtomLine
        ELSE ZeroLine]

\* "1.0 x 1.0 90 90 90"
CellLineBad == <<F10, <<"x">>, F10, T90, T90, T90>>

BOUND == << <<"B", "O", "U", "N", "D">> >>

\* the cell section of a document: absent, well-formed or malformed
CellSections == { <<>>, <<CELLP, CellLine>>, <<CELLP, CellLineBad>> }

\* the VECTR section of a document: absent, or with up to MaxVecs vectors
VectrSections == { <<>> } \cup { <<VECTR>> \o VectrLinesOf(k) : k \in 0..MaxVecs }

\* the end of a document: nothing, or the header of a further section
Tails == { <<>>, <<BOUND>> }

\* the .vesta documents: SYMOP, CELLP, STRUC and VECTR sections in the
\* order of the format
ConvDocs ==
    { <<SYMOP>> \o SymopLines(n) \o cell \o <<STRUC>> \o StrucLines(rows)
            \o vec \o tail :
        n \in 0..MaxOps,
        cell \in CellSections,
        rows \in SeqsUpTo(1..MaxOps, MaxAtoms),
        vec \in VectrSections,
        tail \in Tails }

\* the .cell file as a run finds it: closed, with the text of an earlier run
OldFile == [opened |-> FALSE, content |-> <<"o", "l", "d", "\n">>]

\* ------------------------------------------------------------ convert
\* a slip: write_castep is called right after read_vesta
ConvertAfterOpeningFirst(call) ==
    CASE call = "read_vesta" -> "write_castep"
      [] call = "vesta_to_castep" -> "write_castep"
      [] call = "write_castep" -> "done"

\* the order of the calls in convert
ConvertAfter(call) ==
    CASE call = "read_vesta" -> "vesta_to_castep"
      [] call = "vesta_to_castep" -> "write_castep"
      [] call = "write_castep" -> "done"

InitConvert ==
    /\ pc = "read_vesta"
    /\ err = ""
    /\ spin \in {"nospin", "collinear", "noncollinear"}
    /\ doc \in ConvDocs
    /\ idx = 0
    /\ keyword = <<>>
    /\ data_block = <<>>
    /\ vesta_objs = <<>>
    /\ i = 0
    /\ j = 0
    /\ atoms = <<>>
    /\ positions = <<>>
    /\ atom_pos = None
    /\ castep_objs = None
    /\ file = OldFile
    /\ obj = None
    /\ string = <<>>

\* vesta_objs = read_vesta(f_in)
ConvRead ==
    /\ pc = "read_vesta"
    /\ ReadVesta(doc).ok
    /\ vesta_objs' = ReadVesta(doc).val
    /\ pc' = ConvertAfter("read_vesta")
    /\ UNCHANGED <<err, spin, doc, idx, keyword, data_block, i, j, atoms,
                   positions, atom_pos, castep_objs, file, obj, string>>

\* read_vesta raises
ConvReadRaise ==
    /\ pc = "read_vesta"
    /\ Raised(ReadVesta(doc))
    /\ pc' = "error"
    /\ UNCHANGED <<spin, doc, idx, keyword, data_block, vesta_objs, i, j, atoms,
                   positions, atom_pos, castep_objs, file, obj, string>>

\* castep_objs = vesta_to_castep(vesta_objs, spin)
ConvToCastep ==
    /\ pc = "vesta_to_castep"
    /\ VestaToCastep(vesta_objs, spin).ok
    /\ castep_objs' = VestaToCastep(vesta_objs, spin).val
    /\ atom_pos' = Some(VestaToCastep(vesta_objs, spin).val[2])
    /\ pc' = ConvertAfter("vesta_to_castep")
    /\ UNCHANGED <<err, spin, doc, idx, keyword, data_block, vesta_objs, i, j,
                   atoms, positions, file, obj, string>>

\* vesta_to_castep raises
ConvToCastepRaise ==
    /\ pc = "vesta_to_castep"
    /\ Raised(VestaToCastep(vesta_objs, spin))
    /\ pc' = "error"
    /\ UNCHANGED <<spin, doc, idx, keyword, data_block, vesta_objs, i, j, atoms,
                   positions, atom_pos, castep_objs, file, obj, string>>

\* write_castep: open(f"{fname}.cell", "w") truncates the file
ConvOpen ==
    /\ pc = "write_castep"
    /\ file' = [opened |-> TRUE, content |-> <<>>]
    /\ i' = 0
    /\ pc' = "writing"
    /\ UNCHANGED <<err, spin, doc, idx, keyword, data_block, vesta_objs, j,
                   atoms, positions, atom_pos, castep_objs, obj, string>>

\* one pass of `for obj in castep_objs`: file.write(repr(obj));
\* file.write("\n")
ConvWriteObj ==
    /\ pc = "writing"
    /\ i < Len(castep_objs)
    /\ Repr(castep_objs[i + 1]).ok
    /\ file' = [file EXCEPT !.content = @ \o Repr(castep_objs[i + 1]).val \o <<"\n">>]
    /\ i' = i + 1
    /\ UNCHANGED <<pc, err, spin, doc, idx, keyword, data_block, vesta_objs, j,
                   atoms, positions, atom_pos, castep_objs, obj, string>>

\* repr(obj) raises: the with statement closes the file as it is
ConvWriteRaise ==
    /\ pc = "writing"
    /\ i < Len(castep_objs)
    /\ Raised(Repr(castep_objs[i + 1]))
    /\ file' = [file EXCEPT !.opened = FALSE]
    /\ pc' = "error"
    /\ UNCHANGED <<spin, doc, idx, keyword, data_block, vesta_objs, i, j, atoms,
                   positions, atom_pos, castep_objs, obj, string>>

\* the objects are written: the file is closed and convert returns
ConvDone ==
    /\ pc = "writing"
    /\ i >= Len(castep_objs)
    /\ file' = [file EXCEPT !.opened = FALSE]
    /\ pc' = ConvertAfter("write_castep")
    /\ UNCHANGED <<err, spin, doc, idx, keyword, data_block, vesta_objs, i, j,
                   atoms, positions, atom_pos, castep_objs, obj, string>>

NextConvert ==
    \/ ConvRead
    \/ ConvReadRaise
    \/ ConvToCastep
    \/ ConvToCastepRaise
    \/ ConvOpen
    \/ ConvWriteObj
    \/ ConvWriteRaise
    \/ ConvDone

SpecConvert == InitConvert /\ [][NextConvert]_vars

\* ------------------------------------------------------------ claims on convert
\* the places of the token spin= among the tokens of a row
SpinPlaces(toks) == {p \in 1..Len(toks) : toks[p] = SpinToken}

\* the row has exactly one token spin=, and three numbers after it
OneSpinToken(toks) ==
    /\ Cardinality(SpinPlaces(toks)) = 1
    /\ \A p \in SpinPlaces(toks) :
        /\ Len(toks) = p + 3
        /\ \A q \in (p + 1)..(p + 3) : ParseFloat(toks[q]).ok

\* the rows of the positions_frac block of the file, as tokens
FileRows == [k \in 1..Len(BlockRows(file.content)) |->
                TokensOf(BlockRows(file.content)[k])]

\* the outcome of vesta_to_castep in the mode sp on what read_vesta gave
ExpansionAfter(r, sp) == IF ~r.ok THEN r ELSE VestaToCastep(r.val, sp)

\* read_vesta gave r with a decoded VECTR section, and the input converts in
\* nospin mode
VectrDecoded(r) ==
    /\ r.ok
    /\ VECTR \in DOMAIN r.val
    /\ VestaToCastep(r.val, "nospin").ok

\* no row of the block in the file has the token spin=
NoSpinRows(rows) ==
    /\ pc = "done"
    /\ \A k \in 1..Len(rows) : SpinPlaces(rows[k]) = {}

\* every atom has its row in the file, with one spin= and three numbers
AllSpinRows(rows) ==
    /\ pc = "done"
    /\ Len(rows) = Len(The(atom_pos).atoms)
    /\ \A k \in 1..Len(rows) : OneSpinToken(rows[k])

\* C4: for an input whose VECTR section is decoded and which converts in
\* nospin mode, the run in nospin mode writes a positions_frac block with no
\* spin= token in any row, and the run in noncollinear mode writes a block in
\* which every atom row has exactly one spin= token followed by three moment
\* components.
C4_SpinTokenPerRow ==
    (pc \in {"done", "error"} /\ VectrDecoded(ReadVesta(doc)))
        => /\ spin = "nospin" => NoSpinRows(FileRows)
           /\ spin = "noncollinear" => AllSpinRows(FileRows)

\* vesta_to_castep gave x with at least as many moments as atom records
MomentsCover(x) ==
    /\ x.ok
    /\ Len(The(x.val[2].vectors)) >= Len(x.val[2].atoms)

\* What the code does give: the rows are as C4 has them whenever the VECTR
\* section yields at least as many moments as there are atom records, and
\* in nospin mode always.
SpinTokenPerRowWhenMomentsCover ==
    (pc \in {"done", "error"} /\ VectrDecoded(ReadVesta(doc)))
        => /\ spin = "nospin" => NoSpinRows(FileRows)
           /\ (/\ spin = "noncollinear"
               /\ MomentsCover(ExpansionAfter(ReadVesta(doc), spin)))
                    => AllSpinRows(FileRows)

\* with x the outcome of read_vesta and vesta_to_castep on the input
OpenOnlyAfter(x) ==
    /\ (file.opened \/ file # OldFile) => (x.ok /\ castep_objs = x.val)
    /\ ~x.ok =>
            /\ pc \in {"read_vesta", "vesta_to_castep", "error"}
            /\ file = OldFile
            /\ (pc # "read_vesta" /\ ~ENABLED NextConvert)
                    => (pc = "error" /\ err # "")

\* C5: the .cell file is opened, and so truncated, only in runs in which
\* read_vesta and vesta_to_castep have both returned; in a run in which one
\* of them raises, the file is at every step closed and as the run found it,
\* write_castep is never reached, and the run can only stop in the error
\* state (at read_vesta it never stops: the call returns or raises).
C5_OpenOnlyAfterExpansion == OpenOnlyAfter(ExpansionAfter(ReadVesta(doc), spin))

\* a run whose symmetry count is out of range has stopped in vesta_to_castep
\* with the old file in place
C5_Witness ==
    /\ pc = "error"
    /\ err = "IndexError"
    /\ DOMAIN vesta_objs # {}
    /\ castep_objs = None
    /\ file = OldFile

=============================================================================
